---- MODULE Spec2Model ----
(***************************************************************************)
(* Inspection lifecycle of src/src/components/FIMSDashboard.tsx: the       *)
(* delete / complete / revisit handlers, the two refresh paths and the     *)
(* record store they talk to.  Every await of a handler is a point where   *)
(* the handler is suspended; the suspended continuations are the bag       *)
(* `tasks`.  A step of the model is what runs between two awaits.          *)
(***************************************************************************)
EXTENDS Integers, Sequences, FiniteSets, Bags, TLC

VARIABLES
  store,               \* table fims_inspections of the backing store: id -> row, for the ids it holds
  inspections,         \* useState<InspectionData[]>        (line 80)
  isLoading,           \* useState(false)                   (line 79)
  availableInspectors, \* useState<any[]>                   (line 101), kept as the set of user ids
  showRevisitModal,    \* useState(false)                   (line 99)
  revisitInspectionId, \* useState<string>('')              (line 100), 0 stands for ''
  selectedInspector,   \* useState('')                      (line 102)
  isLoadingRole,       \* usePermissions(user).isLoading    (line 76)
  userRole,            \* usePermissions(user).userRole     (line 76)
  tasks,               \* bag of suspended async continuations (promises not yet settled)
  output,              \* what the step just taken showed: confirm(), alert(), console.error(), in order
  started,             \* number of delete, complete and revisit attempts so far
  supabase,            \* whether '../lib/supabase' exports a client (lines 167-171, 233-234)
  categories,          \* useState<CategoryData[]>          (line 81)
  language,            \* i18n.language                     (line 75)
  searchTerm,          \* useState('')                      (line 86)
  selectedCategory,    \* useState('')                      (line 83)
  selectedStatus,      \* useState('')                      (line 84)
  columnFilters,       \* useState({...})                   (lines 87-94)
  showPhotoModal,      \* useState(false)                   (line 95)
  selectedPhotoIndex,  \* useState(0)                       (line 96)
  viewingPhotos,       \* useState<InspectionPhoto[]>([])   (line 97)
  photoStore           \* table fims_inspection_photos: inspection id -> its rows by photo_order

\* the filter criteria of the record list
filters == <<searchTerm, selectedCategory, selectedStatus, columnFilters>>

\* the photo viewer and the table it reads
viewer == <<showPhotoModal, selectedPhotoIndex, viewingPhotos, photoStore>>

vars == <<store, inspections, isLoading, availableInspectors, showRevisitModal,
          revisitInspectionId, selectedInspector, isLoadingRole, userRole, tasks,
          output, started, supabase, categories, language, filters, viewer>>

\* ---------------------------------------------------------------- bounds
\* delete, complete and revisit attempts in one run
MaxOps == 2

\* ---------------------------------------------------------------- data
Null == "null"

StatusSet == {"draft", "planned", "in_progress", "submitted",
              "under_review", "approved", "rejected", "reassigned"}

\* user.id of the signed-in actor and the users that fetchInspectors() lists
User == "u1"
Inspectors == {"u2"}
Roles == {"admin", "inspector"}

\* a row as the intake flow leaves it: is_compliant is known only for reviewed rows
InitialRecord(s) ==
  [status |-> s, inspector_id |-> User,
   is_compliant |-> IF s = "approved" THEN "true" ELSE IF s = "rejected" THEN "false" ELSE Null]

InitialStore(s1, s2) == <<InitialRecord(s1), InitialRecord(s2)>>

\* the sessions a run starts from: a table and the role of the actor; the tables
\* together put every status on a record
InitialSessions ==
  { <<InitialStore("draft", "planned"), "admin">>,
    <<InitialStore("in_progress", "submitted"), "inspector">>,
    <<InitialStore("under_review", "approved"), "admin">>,
    <<InitialStore("rejected", "reassigned"), "inspector">> }

Ids == {1, 2}

Row(st, i) == [id |-> i, status |-> st[i].status, inspector_id |-> st[i].inspector_id,
               is_compliant |-> st[i].is_compliant]

\* .select(...).order('created_at', { ascending: false }) (lines 174-183): the
\* rows of the table, newest (largest id) first
RECURSIVE SelectDesc(_, _)
SelectDesc(st, S) ==
  IF S = {} THEN <<>>
  ELSE LET m == CHOOSE x \in S : \A y \in S : y <= x
       IN  <<Row(st, m)>> \o SelectDesc(st, S \ {m})

SelectAll(st) == SelectDesc(st, DOMAIN st)

\* getInspections(user.id, userRole): the rows the actor may see, newest first
InScope(row, actor, role) == role # "inspector" \/ row.inspector_id = actor
GetInspections(st, actor, role) ==
  SelectSeq(SelectAll(st), LAMBDA row : InScope(row, actor, role))

MemIds(recs) == {recs[k].id : k \in 1..Len(recs)}

\* the categories fetchCategories() lists (line 151): id, default and Marathi
\* display name, form type
Category(id, name, marathi, form) ==
  [id |-> id, name |-> name, name_marathi |-> marathi, form_type |-> form]

FetchCategories ==
  << Category("c1", "Anganwadi", "Balwadi", "anganwadi"),
     Category("c2", "Office", "Karyalay", "office") >>

\* ---------------------------------------------------------------- output
Confirm(answer) ==
  [via |-> "confirm", text |-> "Are you sure you want to delete this inspection?",
   detail |-> answer]
Alert(text) == [via |-> "alert", text |-> text, detail |-> ""]
AlertError(text, e) == [via |-> "alert", text |-> text, detail |-> e]
ConsoleError(text, e) == [via |-> "console.error", text |-> text, detail |-> e]

\* what a failed store call throws
StoreError == "StoreError"
NotFoundError == "NotFoundError"

\* ---------------------------------------------------------------- tasks
\* a suspended continuation: which handler, which await it sits at ("mutate": the
\* mutating store call, "list": the query for the record set), whether the store
\* has answered the query yet, and what it answered
Task(kind, id, insp, at, res, data) ==
  [kind |-> kind, id |-> id, insp |-> insp, at |-> at, res |-> res, data |-> data]

Spawn(b, t) == b (+) SetToBag({t})
Settle(b, t) == b (-) SetToBag({t})
InFlight == BagToSet(tasks)

\* the rows whose buttons are rendered (lines 888-976 map over the record set)
Rendered(id) == id \in MemIds(inspections)

\* the criteria of a list nobody has filtered yet (lines 83-94)
NoColumnFilters ==
  [inspectionNumber |-> "", location |-> "", category |-> "", status |-> "",
   date |-> "", filled_by_name |-> ""]

NoFilters ==
  /\ searchTerm = ""
  /\ selectedCategory = ""
  /\ selectedStatus = ""
  /\ columnFilters = NoColumnFilters

\* the photo viewer before any photo was asked for (lines 95-97)
ViewerClosed ==
  /\ showPhotoModal = FALSE
  /\ selectedPhotoIndex = 0
  /\ viewingPhotos = <<>>

NoPhotos == [i \in {} |-> <<>>]

\* the component as its useState calls leave it (lines 77-102), on some table of
\* the store and for some role of the actor
Mounted ==
  /\ \E s \in InitialSessions : store = s[1] /\ userRole = s[2]
  /\ inspections = <<>>
  /\ categories = <<>>
  /\ isLoading = FALSE
  /\ availableInspectors = {}
  /\ showRevisitModal = FALSE
  /\ revisitInspectionId = 0
  /\ selectedInspector = ""
  /\ isLoadingRole = TRUE
  /\ tasks = EmptyBag
  /\ output = <<>>
  /\ started = 0
  /\ language = "en"
  /\ NoFilters
  /\ ViewerClosed
  /\ photoStore = NoPhotos

\* a session whose store client is set up
Init == Mounted /\ supabase = TRUE

\* ---------------------------------------------------------------- refresh
\* fetchAllData up to its await (lines 146-153)
FetchAllDataTask == Task("fetchAllData", 0, "", "list", "pending", <<>>)

\* useEffect on [isLoadingRole, userRole] (lines 121-125): the role lookup finishes
RoleLoaded ==
  /\ isLoadingRole
  /\ isLoadingRole' = FALSE
  /\ isLoading' = TRUE
  /\ tasks' = Spawn(tasks, FetchAllDataTask)
  /\ output' = <<>>
  /\ UNCHANGED <<store, inspections, availableInspectors, showRevisitModal,
                 revisitInspectionId, selectedInspector, userRole, supabase,
                   categories, language, filters, viewer, started>>

\* what the store answers to a query for the record set: fetchAllData asks
\* getInspections (line 150), fetchInspectionsData selects the whole table
\* (lines 174-183)
ListResult(t) ==
  IF t.kind = "fetchAllData" THEN GetInspections(store, User, userRole)
  ELSE SelectAll(store)

\* the store answers a pending query, with the rows it holds now or with an error
StoreAnswersList ==
  \E t \in InFlight :
    /\ t.at = "list" /\ t.res = "pending"
    /\ \E ok \in BOOLEAN :
         tasks' = Spawn(Settle(tasks, t),
                        IF ok THEN [t EXCEPT !.res = "ok", !.data = ListResult(t)]
                        ELSE [t EXCEPT !.res = "error"])
    /\ output' = <<>>
    /\ UNCHANGED <<store, inspections, isLoading, availableInspectors, showRevisitModal,
                   revisitInspectionId, selectedInspector, isLoadingRole, userRole, supabase,
                   categories, language, filters, viewer, started>>

\* fetchAllData clearing the loading flag at the end of its try block only
FetchAllDataResumeStillLoading ==
  \E t \in InFlight :
    /\ t.kind = "fetchAllData" /\ t.res # "pending"
    /\ IF t.res = "ok"
       THEN /\ inspections' = t.data
            /\ categories' = FetchCategories
            /\ availableInspectors' = Inspectors
            /\ output' = <<>>
            /\ isLoading' = FALSE
       ELSE /\ output' = <<ConsoleError("Error fetching data:", StoreError)>>
            /\ UNCHANGED <<inspections, categories, availableInspectors, isLoading>>
    /\ tasks' = Settle(tasks, t)
    /\ UNCHANGED <<store, showRevisitModal, revisitInspectionId, selectedInspector,
                   isLoadingRole, userRole, supabase, language, filters, viewer, started>>

\* fetchAllData after its await (lines 155-162)
FetchAllDataResume ==
  \E t \in InFlight :
    /\ t.kind = "fetchAllData" /\ t.res # "pending"
    /\ IF t.res = "ok"
       THEN /\ inspections' = t.data
            /\ categories' = FetchCategories
            /\ availableInspectors' = Inspectors
            /\ output' = <<>>
       ELSE /\ output' = <<ConsoleError("Error fetching data:", StoreError)>>
            /\ UNCHANGED <<inspections, categories, availableInspectors>>
    /\ isLoading' = FALSE
    /\ tasks' = Settle(tasks, t)
    /\ UNCHANGED <<store, showRevisitModal, revisitInspectionId, selectedInspector,
                   isLoadingRole, userRole, supabase, language, filters, viewer, started>>

\* fetchInspectionsData after its query (lines 185-202): the record set it leaves
\* and what it shows
Refreshed(t) == IF t.res = "ok" THEN t.data ELSE inspections
RefreshOutput(t) ==
  IF t.res = "ok" THEN <<>>
  ELSE <<ConsoleError("Error in fetchInspections:", StoreError),
         AlertError("Error loading inspections: ", StoreError)>>

\* fetchInspectionsData without a store client (lines 167-171, 192-201): the
\* throw of line 170 is caught before any query is sent
ClientError == "Supabase client not initialized"
NoClientOutput ==
  <<ConsoleError("Error in fetchInspections:", ClientError),
    AlertError("Error loading inspections: ", ClientError)>>

\* ---------------------------------------------------------------- store calls
\* .update(fields).eq('id', id): the matching row takes the given fields, a
\* missing row matches nothing and is no error
Update(st, id, fields) ==
  IF id \notin DOMAIN st THEN st
  ELSE [st EXCEPT ![id] = [f \in DOMAIN st[id] |->
                             IF f \in DOMAIN fields THEN fields[f] ELSE st[id][f]]]

\* the update writing a status the dashboard does not count as completed
CompletePayloadCompleted == [status |-> "completed"]

\* the update also settling the compliance verdict
CompletePayloadCompliant == [status |-> "approved", is_compliant |-> "true"]

\* the payload of handleCompleteInspection's update (line 238)
CompletePayload == [status |-> "approved"]

\* deleteInspection(id) of the record store: the row and its photos are removed
DeleteInspection(st, id) == [i \in DOMAIN st \ {id} |-> st[i]]

\* reassignInspection(id, inspectorId) of the record store: the row is handed to
\* the inspector and goes back to fieldwork
ReassignInspection(st, id, insp) ==
  Update(st, id, [inspector_id |-> insp, status |-> "in_progress"])

\* what deleteInspection and reassignInspection throw: a store failure, or the
\* target row is not there
Thrown(st, id, fails) ==
  IF fails THEN StoreError ELSE IF id \notin DOMAIN st THEN NotFoundError ELSE ""

\* ---------------------------------------------------------------- delete
\* handleDeleteInspection that asks but does not heed the answer
HandleDeleteInspectionUnconfirmed ==
  \E id \in Ids, ok \in BOOLEAN :
    /\ Rendered(id)
    /\ started < MaxOps
    /\ output' = <<Confirm(IF ok THEN "ok" ELSE "cancel")>>
    /\ isLoading' = TRUE
    /\ tasks' = Spawn(tasks, Task("handleDeleteInspection", id, "", "mutate", "pending", <<>>))
    /\ started' = started + 1
    /\ UNCHANGED <<store, inspections, availableInspectors, showRevisitModal,
                   revisitInspectionId, selectedInspector, isLoadingRole, userRole, supabase,
                   categories, language, filters, viewer>>

\* handleDeleteInspection up to its first await (lines 215-220); ok is the
\* answer to confirm()
HandleDeleteInspection ==
  \E id \in Ids, ok \in BOOLEAN :
    /\ Rendered(id)
    /\ IF ~ok
       THEN /\ output' = <<Confirm("cancel")>>
            /\ UNCHANGED <<isLoading, tasks, started>>
       ELSE /\ started < MaxOps
            /\ output' = <<Confirm("ok")>>
            /\ isLoading' = TRUE
            /\ tasks' = Spawn(tasks, Task("handleDeleteInspection", id, "", "mutate", "pending", <<>>))
            /\ started' = started + 1
    /\ UNCHANGED <<store, inspections, availableInspectors, showRevisitModal,
                   revisitInspectionId, selectedInspector, isLoadingRole, userRole, supabase,
                   categories, language, filters, viewer>>

\* the delete continuation that swallows a rejected call and goes on as on success
DeleteSettledSwallowed ==
  \E t \in InFlight, fails \in BOOLEAN :
    /\ t.kind = "handleDeleteInspection" /\ t.at = "mutate"
    /\ store' = IF Thrown(store, t.id, fails) = "" THEN DeleteInspection(store, t.id) ELSE store
    /\ output' = <<Alert("Inspection deleted successfully")>>
    /\ tasks' = Spawn(Settle(tasks, t), [t EXCEPT !.at = "list"])
    /\ UNCHANGED <<inspections, isLoading, availableInspectors, showRevisitModal,
                   revisitInspectionId, selectedInspector, isLoadingRole, userRole, supabase,
                   categories, language, filters, viewer, started>>

\* `await deleteInspection(inspectionId)` settles (lines 220-228): on success the
\* alert and then fetchInspectionsData up to its query (or, without a store
\* client, to its end, and the finally), on failure the catch and the finally
DeleteSettled ==
  \E t \in InFlight, fails \in BOOLEAN :
    /\ t.kind = "handleDeleteInspection" /\ t.at = "mutate"
    /\ LET e == Thrown(store, t.id, fails) IN
       IF e # ""
       THEN /\ output' = <<ConsoleError("Error deleting inspection:", e),
                           Alert("Error deleting inspection")>>
            /\ isLoading' = FALSE
            /\ tasks' = Settle(tasks, t)
            /\ UNCHANGED store
       ELSE IF supabase
       THEN /\ store' = DeleteInspection(store, t.id)
            /\ output' = <<Alert("Inspection deleted successfully")>>
            /\ tasks' = Spawn(Settle(tasks, t), [t EXCEPT !.at = "list"])
            /\ UNCHANGED isLoading
       ELSE /\ store' = DeleteInspection(store, t.id)
            /\ output' = <<Alert("Inspection deleted successfully")>> \o NoClientOutput
            /\ isLoading' = FALSE
            /\ tasks' = Settle(tasks, t)
    /\ UNCHANGED <<inspections, availableInspectors, showRevisitModal, revisitInspectionId,
                   selectedInspector, isLoadingRole, userRole, supabase,
                   categories, language, filters, viewer, started>>

\* the delete continuation that drops the rows its refresh was answered with
DeleteRefreshedDiscarding ==
  \E t \in InFlight :
    /\ t.kind = "handleDeleteInspection" /\ t.at = "list" /\ t.res # "pending"
    /\ output' = RefreshOutput(t)
    /\ isLoading' = FALSE
    /\ tasks' = Settle(tasks, t)
    /\ UNCHANGED <<store, inspections, availableInspectors, showRevisitModal,
                   revisitInspectionId, selectedInspector, isLoadingRole, userRole, supabase,
                   categories, language, filters, viewer, started>>

\* handleDeleteInspection after `await fetchInspectionsData()` (lines 222-228)
DeleteRefreshed ==
  \E t \in InFlight :
    /\ t.kind = "handleDeleteInspection" /\ t.at = "list" /\ t.res # "pending"
    /\ inspections' = Refreshed(t)
    /\ output' = RefreshOutput(t)
    /\ isLoading' = FALSE
    /\ tasks' = Settle(tasks, t)
    /\ UNCHANGED <<store, availableInspectors, showRevisitModal, revisitInspectionId,
                   selectedInspector, isLoadingRole, userRole, supabase,
                   categories, language, filters, viewer, started>>

\* ---------------------------------------------------------------- complete
\* handleCompleteInspection up to its update call (lines 231-239); without a
\* store client line 234 returns
HandleCompleteInspection ==
  \E id \in Ids :
    /\ Rendered(id)
    /\ started < MaxOps
    /\ tasks' = IF supabase
                THEN Spawn(tasks, Task("handleCompleteInspection", id, "", "mutate", "pending", <<>>))
                ELSE tasks
    /\ started' = started + 1
    /\ output' = <<>>
    /\ UNCHANGED <<store, inspections, isLoading, availableInspectors, showRevisitModal,
                   revisitInspectionId, selectedInspector, isLoadingRole, userRole, supabase,
                   categories, language, filters, viewer>>

\* the complete continuation that refreshes after a failed update as well
CompleteSettledRefreshing ==
  \E t \in InFlight, fails \in BOOLEAN :
    /\ t.kind = "handleCompleteInspection" /\ t.at = "mutate"
    /\ IF fails
       THEN /\ output' = <<ConsoleError("Error completing inspection:", StoreError),
                           AlertError("Error completing inspection: ", StoreError)>>
            /\ UNCHANGED store
       ELSE /\ store' = Update(store, t.id, CompletePayload)
            /\ output' = <<>>
    /\ tasks' = Spawn(Settle(tasks, t), [t EXCEPT !.at = "list"])
    /\ UNCHANGED <<inspections, isLoading, availableInspectors, showRevisitModal,
                   revisitInspectionId, selectedInspector, isLoadingRole, userRole, supabase,
                   categories, language, filters, viewer, started>>

\* the complete continuation that sends the update again when it has failed
CompleteSettledRetrying ==
  \E t \in InFlight, fails \in BOOLEAN :
    /\ t.kind = "handleCompleteInspection" /\ t.at = "mutate"
    /\ IF fails
       THEN /\ output' = <<ConsoleError("Error completing inspection:", StoreError),
                           AlertError("Error completing inspection: ", StoreError)>>
            /\ UNCHANGED <<store, tasks>>
       ELSE /\ store' = Update(store, t.id, CompletePayload)
            /\ tasks' = Spawn(Settle(tasks, t), [t EXCEPT !.at = "list"])
            /\ output' = <<>>
    /\ UNCHANGED <<inspections, isLoading, availableInspectors, showRevisitModal,
                   revisitInspectionId, selectedInspector, isLoadingRole, userRole, supabase,
                   categories, language, filters, viewer, started>>

\* the update settles (lines 236-247): on success fetchInspectionsData up to its
\* query, on error the catch
CompleteSettled ==
  \E t \in InFlight, fails \in BOOLEAN :
    /\ t.kind = "handleCompleteInspection" /\ t.at = "mutate"
    /\ IF fails
       THEN /\ output' = <<ConsoleError("Error completing inspection:", StoreError),
                           AlertError("Error completing inspection: ", StoreError)>>
            /\ tasks' = Settle(tasks, t)
            /\ UNCHANGED store
       ELSE /\ store' = Update(store, t.id, CompletePayload)
            /\ tasks' = Spawn(Settle(tasks, t), [t EXCEPT !.at = "list"])
            /\ output' = <<>>
    /\ UNCHANGED <<inspections, isLoading, availableInspectors, showRevisitModal,
                   revisitInspectionId, selectedInspector, isLoadingRole, userRole, supabase,
                   categories, language, filters, viewer, started>>

\* handleCompleteInspection after `await fetchInspectionsData()` (lines 243-244)
CompleteRefreshed ==
  \E t \in InFlight :
    /\ t.kind = "handleCompleteInspection" /\ t.at = "list" /\ t.res # "pending"
    /\ inspections' = Refreshed(t)
    /\ output' = RefreshOutput(t) \o <<Alert("Inspection marked as completed")>>
    /\ tasks' = Settle(tasks, t)
    /\ UNCHANGED <<store, isLoading, availableInspectors, showRevisitModal,
                   revisitInspectionId, selectedInspector, isLoadingRole, userRole, supabase,
                   categories, language, filters, viewer, started>>

\* handleRevisitInspection keeping the inspector selected before
HandleRevisitInspectionKeeping ==
  \E id \in Ids :
    /\ Rendered(id)
    /\ revisitInspectionId' = id
    /\ showRevisitModal' = TRUE
    /\ output' = <<>>
    /\ UNCHANGED <<store, inspections, isLoading, availableInspectors, isLoadingRole,
                   userRole, supabase, selectedInspector,
                   categories, language, filters, viewer, tasks, started>>

\* ---------------------------------------------------------------- revisit
\* handleRevisitInspection (lines 251-255)
HandleRevisitInspection ==
  \E id \in Ids :
    /\ Rendered(id)
    /\ revisitInspectionId' = id
    /\ selectedInspector' = ""
    /\ showRevisitModal' = TRUE
    /\ output' = <<>>
    /\ UNCHANGED <<store, inspections, isLoading, availableInspectors, isLoadingRole,
                   userRole, supabase,
                   categories, language, filters, viewer, tasks, started>>

\* the <select> of the revisit dialog (lines 1322-1333)
SelectInspector ==
  \E v \in availableInspectors \cup {""} :
    /\ showRevisitModal
    /\ selectedInspector' = v
    /\ output' = <<>>
    /\ UNCHANGED <<store, inspections, isLoading, availableInspectors, showRevisitModal,
                   revisitInspectionId, isLoadingRole, userRole, supabase,
                   categories, language, filters, viewer, tasks, started>>

\* the close and cancel buttons of the revisit dialog (lines 1310, 1350)
CloseRevisitModal ==
  /\ showRevisitModal
  /\ showRevisitModal' = FALSE
  /\ output' = <<>>
  /\ UNCHANGED <<store, inspections, isLoading, availableInspectors, revisitInspectionId,
                 selectedInspector, isLoadingRole, userRole, supabase,
                   categories, language, filters, viewer, tasks, started>>

\* handleConfirmRevisit without the check of the selection
HandleConfirmRevisitUnchecked ==
  /\ showRevisitModal
  /\ started < MaxOps
  /\ isLoading' = TRUE
  /\ tasks' = Spawn(tasks, Task("handleConfirmRevisit", revisitInspectionId,
                                selectedInspector, "mutate", "pending", <<>>))
  /\ started' = started + 1
  /\ output' = <<>>
  /\ UNCHANGED <<store, inspections, availableInspectors, showRevisitModal,
                 revisitInspectionId, selectedInspector, isLoadingRole, userRole, supabase,
                   categories, language, filters, viewer>>

\* handleConfirmRevisit handing the record to the signed-in user instead of the
\* selected inspector
HandleConfirmRevisitSelf ==
  /\ showRevisitModal
  /\ IF selectedInspector = ""
     THEN /\ output' = <<Alert("Please select an inspector for revisit")>>
          /\ UNCHANGED <<isLoading, tasks, started>>
     ELSE /\ started < MaxOps
          /\ isLoading' = TRUE
          /\ tasks' = Spawn(tasks, Task("handleConfirmRevisit", revisitInspectionId,
                                        User, "mutate", "pending", <<>>))
          /\ started' = started + 1
          /\ output' = <<>>
  /\ UNCHANGED <<store, inspections, availableInspectors, showRevisitModal,
                 revisitInspectionId, selectedInspector, isLoadingRole, userRole, supabase,
                   categories, language, filters, viewer>>

\* handleConfirmRevisit up to its await (lines 257-265), for any caller of the
\* handler
HandleConfirmRevisit ==
  /\ showRevisitModal
  /\ IF selectedInspector = ""
     THEN /\ output' = <<Alert("Please select an inspector for revisit")>>
          /\ UNCHANGED <<isLoading, tasks, started>>
     ELSE /\ started < MaxOps
          /\ isLoading' = TRUE
          /\ tasks' = Spawn(tasks, Task("handleConfirmRevisit", revisitInspectionId,
                                        selectedInspector, "mutate", "pending", <<>>))
          /\ started' = started + 1
          /\ output' = <<>>
  /\ UNCHANGED <<store, inspections, availableInspectors, showRevisitModal,
                 revisitInspectionId, selectedInspector, isLoadingRole, userRole, supabase,
                   categories, language, filters, viewer>>

\* `await reassignInspection(...)` settles (lines 265-274): on success the alert,
\* the dialog closes and fetchAllData runs up to its await (setIsLoading(true)
\* included) before the finally clears the flag; on failure the catch and the
\* finally
RevisitSettled ==
  \E t \in InFlight, fails \in BOOLEAN :
    /\ t.kind = "handleConfirmRevisit" /\ t.at = "mutate"
    /\ LET e == Thrown(store, t.id, fails) IN
       IF e # ""
       THEN /\ output' = <<ConsoleError("Error sending for revisit:", e),
                           AlertError("Error sending for revisit: ", e)>>
            /\ tasks' = Settle(tasks, t)
            /\ UNCHANGED <<store, showRevisitModal>>
       ELSE /\ store' = ReassignInspection(store, t.id, t.insp)
            /\ output' = <<Alert("Inspection assigned for revisit successfully")>>
            /\ showRevisitModal' = FALSE
            /\ tasks' = Spawn(Settle(tasks, t), FetchAllDataTask)
    /\ isLoading' = FALSE
    /\ UNCHANGED <<inspections, availableInspectors, revisitInspectionId,
                   selectedInspector, isLoadingRole, userRole, supabase,
                   categories, language, filters, viewer, started>>

\* ---------------------------------------------------------------- specification
Next ==
  \/ RoleLoaded
  \/ StoreAnswersList
  \/ FetchAllDataResume
  \/ HandleDeleteInspection
  \/ DeleteSettled
  \/ DeleteRefreshed
  \/ HandleCompleteInspection
  \/ CompleteSettled
  \/ CompleteRefreshed
  \/ HandleRevisitInspection
  \/ SelectInspector
  \/ CloseRevisitModal
  \/ HandleConfirmRevisit
  \/ RevisitSettled

Spec == Init /\ [][Next]_vars

\* the button that binds handleConfirmRevisit is disabled while the flag is up or
\* nothing is selected (line 1357)
ConfirmDisabled == isLoading \/ selectedInspector = ""

ClickConfirmRevisit == ~ConfirmDisabled /\ HandleConfirmRevisit

\* the handlers as the rendered controls alone can reach them
NextUI ==
  \/ RoleLoaded
  \/ StoreAnswersList
  \/ FetchAllDataResume
  \/ HandleDeleteInspection
  \/ DeleteSettled
  \/ DeleteRefreshed
  \/ HandleCompleteInspection
  \/ CompleteSettled
  \/ CompleteRefreshed
  \/ HandleRevisitInspection
  \/ SelectInspector
  \/ CloseRevisitModal
  \/ ClickConfirmRevisit
  \/ RevisitSettled

SpecUI == Init /\ [][NextUI]_vars

\* the rendered controls, with every promise settled in the end: the store
\* answers every call and the continuation of every await runs
SpecLive ==
  /\ Init
  /\ [][NextUI]_vars
  /\ WF_vars(StoreAnswersList)
  /\ WF_vars(FetchAllDataResume)
  /\ WF_vars(DeleteSettled)
  /\ WF_vars(DeleteRefreshed)
  /\ WF_vars(CompleteSettled)
  /\ WF_vars(CompleteRefreshed)
  /\ WF_vars(RevisitSettled)

\* the store answers a pending query with the rows it holds now
StoreAnswersRows ==
  /\ StoreAnswersList
  /\ \A t \in BagToSet(tasks') : t.at = "list" => t.res # "error"

\* the rendered controls on a store whose list queries never fail
NextAnswered ==
  \/ RoleLoaded
  \/ StoreAnswersRows
  \/ FetchAllDataResume
  \/ HandleDeleteInspection
  \/ DeleteSettled
  \/ DeleteRefreshed
  \/ HandleCompleteInspection
  \/ CompleteSettled
  \/ CompleteRefreshed
  \/ HandleRevisitInspection
  \/ SelectInspector
  \/ CloseRevisitModal
  \/ ClickConfirmRevisit
  \/ RevisitSettled

SpecAnswered == Init /\ [][NextAnswered]_vars

\* a session in which '../lib/supabase' exports no client: the record store's
\* calls go through fimsService as before, the component's own queries do not
InitNoClient == Mounted /\ supabase = FALSE

NextNoClient ==
  \/ RoleLoaded
  \/ StoreAnswersList
  \/ FetchAllDataResume
  \/ HandleDeleteInspection
  \/ DeleteSettled
  \/ HandleCompleteInspection
  \/ HandleRevisitInspection
  \/ SelectInspector
  \/ CloseRevisitModal
  \/ ClickConfirmRevisit
  \/ RevisitSettled

SpecNoClient == InitNoClient /\ [][NextNoClient]_vars

TypeOK ==
  /\ isLoading \in BOOLEAN
  /\ started \in 0..MaxOps
  /\ DOMAIN store \subseteq Ids
  /\ \A i \in DOMAIN store : store[i].status \in StatusSet
  /\ MemIds(inspections) \subseteq Ids

\* ---------------------------------------------------------------- text
\* String.prototype.toLowerCase / toUpperCase / includes, character by character
LowerOf ==
  [A |-> "a", B |-> "b", C |-> "c", D |-> "d", E |-> "e", F |-> "f", G |-> "g",
   H |-> "h", I |-> "i", J |-> "j", K |-> "k", L |-> "l", M |-> "m", N |-> "n",
   O |-> "o", P |-> "p", Q |-> "q", R |-> "r", S |-> "s", T |-> "t", U |-> "u",
   V |-> "v", W |-> "w", X |-> "x", Y |-> "y", Z |-> "z"]

UpperOf ==
  [a |-> "A", b |-> "B", c |-> "C", d |-> "D", e |-> "E", f |-> "F", g |-> "G",
   h |-> "H", i |-> "I", j |-> "J", k |-> "K", l |-> "L", m |-> "M", n |-> "N",
   o |-> "O", p |-> "P", q |-> "Q", r |-> "R", s |-> "S", t |-> "T", u |-> "U",
   v |-> "V", w |-> "W", x |-> "X", y |-> "Y", z |-> "Z"]

Mapped(c, table) == IF c \in DOMAIN table THEN table[c] ELSE c

RECURSIVE MapChars(_, _)
MapChars(str, table) ==
  IF Len(str) = 0 THEN ""
  ELSE Mapped(SubSeq(str, 1, 1), table) \o MapChars(SubSeq(str, 2, Len(str)), table)

ToLowerCase(str) == MapChars(str, LowerOf)
ToUpperCase(str) == MapChars(str, UpperOf)

Includes(str, sub) ==
  \E k \in 0..(Len(str) - Len(sub)) : SubSeq(str, k + 1, k + Len(sub)) = sub

\* new Date(d).toLocaleDateString() of a date <<year, month, day>>, en-US: M/D/YYYY
ToLocaleDateString(d) == ToString(d[2]) \o "/" \o ToString(d[3]) \o "/" \o ToString(d[1])

\* the texts the i18n bundles hold, by language and key
Resources ==
  [en |-> ("statuses.draft" :> "Draft") @@ ("statuses.planned" :> "Planned") @@
          ("statuses.in_progress" :> "In Progress") @@ ("statuses.submitted" :> "Submitted") @@
          ("statuses.under_review" :> "Under Review") @@ ("statuses.approved" :> "Approved") @@
          ("statuses.rejected" :> "Rejected") @@ ("statuses.reassigned" :> "Reassigned") @@
          ("categories.anganwadi" :> "Anganwadi Centre Inspection"),
   mr |-> ("statuses.draft" :> "Masuda") @@ ("statuses.planned" :> "Niyojit") @@
          ("statuses.in_progress" :> "Pragatipathavar") @@ ("statuses.submitted" :> "Sadar") @@
          ("statuses.approved" :> "Manjur") @@ ("statuses.rejected" :> "Namanjur") @@
          ("categories.anganwadi" :> "Anganwadi Kendra Tapasani")]

\* t(key, defaultValue) (line 75): the text of the bundle of the current
\* language, the default where the bundle has none
T(key, defaultValue) ==
  IF key \in DOMAIN Resources[language] THEN Resources[language][key] ELSE defaultValue

\* the classes of the status badges
Emerald == "bg-gradient-to-r from-emerald-500 to-teal-500 text-white"
BlueCyan == "bg-gradient-to-r from-blue-500 to-cyan-500 text-white"
Slate == "bg-gradient-to-r from-slate-400 to-slate-500 text-white"
AmberOrange == "bg-gradient-to-r from-amber-500 to-orange-500 text-white"
RoseRed == "bg-gradient-to-r from-rose-500 to-red-500 text-white"
VioletPurple == "bg-gradient-to-r from-violet-500 to-purple-500 text-white"
IndigoBlue == "bg-gradient-to-r from-indigo-500 to-blue-500 text-white"

\* getStatusColor (lines 355-373): the badge of the dashboard cards (line 752),
\* the inspections table (line 902) and the inspections cards (line 998)
GetStatusColor(status) ==
  CASE status \in {"approved", "completed"} -> Emerald
    [] status \in {"submitted", "under_review"} -> BlueCyan
    [] status \in {"draft", "pending"} -> Slate
    [] status = "rejected" -> RoseRed
    [] status = "reassigned" -> VioletPurple
    [] OTHER -> Slate

\* the badge of the dashboard table (lines 707-716)
DashboardStatusColor(status) ==
  IF status = "approved" THEN Emerald
  ELSE IF status = "submitted" THEN BlueCyan
  ELSE IF status = "draft" THEN Slate
  ELSE IF status = "in_progress" THEN AmberOrange
  ELSE IF status = "rejected" THEN RoseRed
  ELSE IF status = "reassigned" THEN VioletPurple
  ELSE IF status = "under_review" THEN IndigoBlue
  ELSE Slate

\* getStatusText with the raw status as the default
GetStatusTextRaw(status) == T("statuses." \o status, status)

\* getStatusText (lines 375-377)
GetStatusText(status) == T("statuses." \o status, ToUpperCase(status))

\* ---------------------------------------------------------------- record list
\* optional chaining and || on a field that may be absent
Has(inspection, field) == field \in DOMAIN inspection

FieldIncludes(inspection, field, criterion) ==
  /\ Has(inspection, field)
  /\ Includes(ToLowerCase(inspection[field]), ToLowerCase(criterion))

\* categories.find(c => c.id === inspection.category_id) (lines 319, 889):
\* the categories with that id, none when the id dangles
FindCategory(inspection) ==
  SelectSeq(categories, LAMBDA c : c.id = inspection.category_id)

\* lines 319-320
CategoryName(inspection) ==
  LET category == FindCategory(inspection) IN
  IF category # <<>> THEN T("categories." \o category[1].form_type, category[1].name) ELSE ""

\* line 327
InspectionDate(inspection) ==
  IF Has(inspection, "inspection_date") THEN <<inspection.inspection_date>>
  ELSE IF Has(inspection, "planned_date") THEN <<inspection.planned_date>>
  ELSE <<>>

\* the axes of getFilteredInspections (lines 306-332)
MatchesSearch(inspection) ==
  \/ searchTerm = ""
  \/ FieldIncludes(inspection, "location_name", searchTerm)
  \/ FieldIncludes(inspection, "inspection_number", searchTerm)

MatchesCategory(inspection) ==
  selectedCategory = "" \/ inspection.category_id = selectedCategory

\* the selected status compared with the label of the record's status
MatchesStatusByLabel(inspection) ==
  selectedStatus = "" \/ ToLowerCase(GetStatusText(inspection.status)) = selectedStatus

MatchesStatus(inspection) ==
  selectedStatus = "" \/ inspection.status = selectedStatus

MatchesInspectionNumber(inspection) ==
  \/ columnFilters.inspectionNumber = ""
  \/ FieldIncludes(inspection, "inspection_number", columnFilters.inspectionNumber)

MatchesLocation(inspection) ==
  \/ columnFilters.location = ""
  \/ FieldIncludes(inspection, "location_name", columnFilters.location)

\* the category column filter letting a record without a known category pass
MatchesCategoryFilterLenient(inspection) ==
  \/ columnFilters.category = ""
  \/ FindCategory(inspection) = <<>>
  \/ Includes(ToLowerCase(CategoryName(inspection)), ToLowerCase(columnFilters.category))

MatchesCategoryFilter(inspection) ==
  \/ columnFilters.category = ""
  \/ Includes(ToLowerCase(CategoryName(inspection)), ToLowerCase(columnFilters.category))

MatchesStatusFilter(inspection) ==
  \/ columnFilters.status = ""
  \/ Includes(ToLowerCase(GetStatusText(inspection.status)), ToLowerCase(columnFilters.status))

\* the date axis asking for a date even when nothing was typed
MatchesDateFilterStrict(inspection) ==
  /\ InspectionDate(inspection) # <<>>
  /\ Includes(ToLocaleDateString(InspectionDate(inspection)[1]), columnFilters.date)

MatchesDateFilter(inspection) ==
  \/ columnFilters.date = ""
  \/ /\ InspectionDate(inspection) # <<>>
     /\ Includes(ToLocaleDateString(InspectionDate(inspection)[1]), columnFilters.date)

MatchesFilledBy(inspection) ==
  \/ columnFilters.filled_by_name = ""
  \/ FieldIncludes(inspection, "filled_by_name", columnFilters.filled_by_name)

\* the callback returning without the filled_by_name axis
PassesIgnoringFilledBy(inspection) ==
  /\ MatchesSearch(inspection)
  /\ MatchesCategory(inspection)
  /\ MatchesStatus(inspection)
  /\ MatchesInspectionNumber(inspection)
  /\ MatchesLocation(inspection)
  /\ MatchesCategoryFilter(inspection)
  /\ MatchesStatusFilter(inspection)
  /\ MatchesDateFilter(inspection)

\* the callback of the filter (lines 305-337)
Passes(inspection) ==
  /\ MatchesSearch(inspection)
  /\ MatchesCategory(inspection)
  /\ MatchesStatus(inspection)
  /\ MatchesInspectionNumber(inspection)
  /\ MatchesLocation(inspection)
  /\ MatchesCategoryFilter(inspection)
  /\ MatchesStatusFilter(inspection)
  /\ MatchesDateFilter(inspection)
  /\ MatchesFilledBy(inspection)

\* a filter that also drops the first record it keeps
FilterDroppingFirst(recs) ==
  IF SelectSeq(recs, Passes) = <<>> THEN <<>> ELSE Tail(SelectSeq(recs, Passes))

\* Array.prototype.filter with that callback (line 305)
Filter(recs) == SelectSeq(recs, Passes)

\* getFilteredInspections (lines 304-338)
GetFilteredInspections == Filter(inspections)

\* getStatusCounts (lines 340-347)
CountWhere(recs, statuses) == Len(SelectSeq(recs, LAMBDA i : i.status \in statuses))

\* the counters taken over the rows the filters leave
GetStatusCountsFiltered ==
  [total |-> Len(GetFilteredInspections),
   pending |-> CountWhere(GetFilteredInspections, {"planned", "in_progress", "draft"}),
   completed |-> CountWhere(GetFilteredInspections, {"approved"}),
   submitted |-> CountWhere(GetFilteredInspections, {"submitted"})]

\* the counters with planned records left out of pending
GetStatusCountsUnplanned ==
  [total |-> Len(inspections),
   pending |-> CountWhere(inspections, {"in_progress", "draft"}),
   completed |-> CountWhere(inspections, {"approved"}),
   submitted |-> CountWhere(inspections, {"submitted"})]

\* the counters with the approved records counted as pending too
GetStatusCountsOverlapping ==
  [total |-> Len(inspections),
   pending |-> CountWhere(inspections, {"planned", "in_progress", "draft", "approved"}),
   completed |-> CountWhere(inspections, {"approved"}),
   submitted |-> CountWhere(inspections, {"submitted"})]

GetStatusCounts ==
  [total |-> Len(inspections),
   pending |-> CountWhere(inspections, {"planned", "in_progress", "draft"}),
   completed |-> CountWhere(inspections, {"approved"}),
   submitted |-> CountWhere(inspections, {"submitted"})]

\* ---- IEEE 754 double arithmetic, as far as line 352 needs it.  The 53 bits of
\* a double's significand are kept in three limbs, [hi, mid, lo] of 17, 18 and
\* 18 bits, the first bit of hi being 1; exp is the power of two the last bit
\* of lo counts, so the value is (hi * 2^36 + mid * 2^18 + lo) * 2^exp.
Limb == 2^18
TopLimb == 2^17

Double(hi, mid, lo, exp) == [hi |-> hi, mid |-> mid, lo |-> lo, exp |-> exp]

\* the next double above d
NextUp(d) ==
  IF d.lo + 1 < Limb THEN [d EXCEPT !.lo = d.lo + 1]
  ELSE IF d.mid + 1 < Limb THEN [d EXCEPT !.lo = 0, !.mid = d.mid + 1]
  ELSE IF d.hi + 1 < TopLimb THEN [d EXCEPT !.lo = 0, !.mid = 0, !.hi = d.hi + 1]
  ELSE Double(TopLimb \div 2, 0, 0, d.exp + 1)

\* round to nearest, ties to even: d is the value cut off after 53 bits, rest
\* what was cut off, in units of which half is one half of d's last bit
RoundToDouble(d, rest, half) ==
  IF rest > half \/ (rest = half /\ d.lo % 2 = 1) THEN NextUp(d) ELSE d

\* x / y of naturals 0 < x <= y < 2^13
Divide(x, y) ==
  LET k == CHOOSE n \in 0..13 : 2^n * x >= y /\ (n = 0 \/ 2^(n - 1) * x < y)
      n0 == 2^k * x * (TopLimb \div 2)
      n1 == (n0 % y) * Limb
      n2 == (n1 % y) * Limb
      n3 == (n2 % y) * 2
          \* the bit after the 53rd, doubled, plus one if anything follows it
      rest == 2 * (n3 \div y) + (IF n3 % y = 0 THEN 0 ELSE 1)
  IN  RoundToDouble(Double(n0 \div y, n1 \div y, n2 \div y, 0 - 52 - k), rest, 2)

\* d * 100
TimesHundred(d) ==
  LET lo == 100 * d.lo
      mid == 100 * d.mid + lo \div Limb
      hi == 100 * d.hi + mid \div Limb
          \* the product has 6 or 7 bits more than 53
      cut == IF hi < 64 * TopLimb THEN 64 ELSE 128
      keep == Limb \div cut
  IN  RoundToDouble(Double(hi \div cut,
                           ((mid % Limb) \div cut) + (hi % cut) * keep,
                           ((lo % Limb) \div cut) + (mid % cut) * keep,
                           d.exp + (IF cut = 64 THEN 6 ELSE 7)),
                    lo % cut, cut \div 2)

\* Math.round of a double between 0 and 100: the nearest integer, halves go up
MathRound(d) ==
  LET top == d.exp + 52      \* the power of two the first bit counts
  IN  IF top < 0 - 1 THEN 0
      ELSE IF top = 0 - 1 THEN 1
      ELSE (d.hi \div 2^(16 - top)) + ((d.hi \div 2^(15 - top)) % 2)

\* Math.round((x / y) * 100) of naturals x <= y, y > 0 (line 352), each
\* operation on the value of the one before
RoundPercent(x, y) ==
  IF x = 0 THEN 0
  ELSE CHOOSE rate \in {MathRound(product) :
                          product \in {TimesHundred(quotient) :
                                          quotient \in {Divide(a, b) :
                                                           a \in {x}, b \in {y}}}} : TRUE

\* getCompletionRate (lines 349-353)
GetCompletionRate ==
  IF GetStatusCounts.total = 0 THEN 0
  ELSE RoundPercent(GetStatusCounts.completed, GetStatusCounts.total)

\* ---------------------------------------------------------------- filtering the list
\* records as the list query returns them, newest first; location_name, the two
\* dates and filled_by_name are absent on some, and one category_id dangles
InspectionPool ==
  << [id |-> 7, inspection_number |-> "INS-007", location_name |-> "Pune Ward",
      category_id |-> "c1", status |-> "draft", inspection_date |-> <<2026, 3, 5>>,
      planned_date |-> <<2026, 3, 1>>, filled_by_name |-> "Asha"],
     [id |-> 6, inspection_number |-> "INS-006", category_id |-> "c2",
      status |-> "approved", planned_date |-> <<2026, 4, 12>>],
     [id |-> 5, inspection_number |-> "ins-005", location_name |-> "NASHIK",
      category_id |-> "c9", status |-> "submitted", filled_by_name |-> "Ravi"],
     [id |-> 4, inspection_number |-> "INS-004", location_name |-> "Pune Camp",
      category_id |-> "c1", status |-> "approved", inspection_date |-> <<2026, 12, 3>>,
      filled_by_name |-> "asha"],
     [id |-> 3, inspection_number |-> "INS-003", location_name |-> "ward 7",
      category_id |-> "c2", status |-> "in_progress", planned_date |-> <<2026, 3, 5>>],
     [id |-> 2, inspection_number |-> "INS-002", location_name |-> "Camp Road",
      category_id |-> "c1", status |-> "planned", planned_date |-> <<2026, 5, 20>>],
     [id |-> 1, inspection_number |-> "INS-001", location_name |-> "Satara",
      category_id |-> "c2", status |-> "rejected", inspection_date |-> <<2025, 11, 30>>,
      filled_by_name |-> "Meera"] >>

\* the record sets a list can hold: the newest k and the oldest k records of the
\* pool, for every k
RecordSets ==
  {SubSeq(InspectionPool, 1, k) : k \in 0..Len(InspectionPool)}
    \cup {SubSeq(InspectionPool, k, Len(InspectionPool)) : k \in 1..Len(InspectionPool)}

Languages == {"en", "mr"}

\* what the user types or picks
SearchTerms == {"", "PUNE", "ins-00"}
StatusOptions == {"", "approved"}
ColumnInputs ==
  [inspectionNumber |-> {"", "S-00"},
   location |-> {"", "WARD"},
   category |-> {"", "office", "KARYA"},
   status |-> {"", "APPR", "in_p"},
   date |-> {"", "3/5"},
   filled_by_name |-> {"", "ASHA"}]

\* everything but the filter criteria
session == <<store, inspections, isLoading, availableInspectors, showRevisitModal,
             revisitInspectionId, selectedInspector, isLoadingRole, userRole, tasks,
             output, started, supabase, categories, language, viewer>>

\* the list loaded and at rest, nothing filtered yet
InitQuery ==
  /\ inspections \in RecordSets
  /\ categories = FetchCategories
  /\ language \in Languages
  /\ NoFilters
  /\ ViewerClosed
  /\ photoStore = NoPhotos
  /\ store = <<>>
  /\ userRole = "admin"
  /\ isLoadingRole = FALSE
  /\ isLoading = FALSE
  /\ availableInspectors = Inspectors
  /\ showRevisitModal = FALSE
  /\ revisitInspectionId = 0
  /\ selectedInspector = ""
  /\ tasks = EmptyBag
  /\ output = <<>>
  /\ started = 0
  /\ supabase = TRUE

\* onChange of the search box (line 799)
SetSearchTerm ==
  \E v \in SearchTerms :
    /\ searchTerm' = v
    /\ UNCHANGED <<session, selectedCategory, selectedStatus, columnFilters>>

\* onChange of the category select (lines 804-814): '' or the id of a category
SetSelectedCategory ==
  \E v \in {""} \cup {categories[k].id : k \in 1..Len(categories)} :
    /\ selectedCategory' = v
    /\ UNCHANGED <<session, searchTerm, selectedStatus, columnFilters>>

\* onChange of the status select (lines 817-829)
SetSelectedStatus ==
  \E v \in StatusOptions :
    /\ selectedStatus' = v
    /\ UNCHANGED <<session, searchTerm, selectedCategory, columnFilters>>

\* onChange of a column filter input (lines 679, 868)
SetColumnFilters ==
  \E col \in DOMAIN ColumnInputs :
    \E v \in ColumnInputs[col] :
      /\ columnFilters' = [columnFilters EXCEPT ![col] = v]
      /\ UNCHANGED <<session, searchTerm, selectedCategory, selectedStatus>>

NextQuery ==
  \/ SetSearchTerm
  \/ SetSelectedCategory
  \/ SetSelectedStatus
  \/ SetColumnFilters

SpecQuery == InitQuery /\ [][NextQuery]_vars

\* ---- The counters as the list grows: a specification of reloads alone ----

MaxTotal == 40

\* a status the store may hold though the Inspection interface (line 42) does
\* not name it: the column is text
UnlistedStatus == "on_hold"

Filed(n, status) ==
  [id |-> n, inspection_number |-> "INS-" \o ToString(n), category_id |-> "c1",
   status |-> status]

\* one record of every status, newest first
MixedList ==
  << Filed(9, UnlistedStatus), Filed(8, "reassigned"), Filed(7, "rejected"),
     Filed(6, "approved"), Filed(5, "under_review"), Filed(4, "submitted"),
     Filed(3, "in_progress"), Filed(2, "planned"), Filed(1, "draft") >>

InitCounts ==
  /\ inspections \in {<<>>, MixedList}
  /\ categories = FetchCategories
  /\ language \in Languages
  /\ NoFilters
  /\ ViewerClosed
  /\ photoStore = NoPhotos
  /\ store = <<>>
  /\ userRole = "admin"
  /\ isLoadingRole = FALSE
  /\ isLoading = FALSE
  /\ availableInspectors = Inspectors
  /\ showRevisitModal = FALSE
  /\ revisitInspectionId = 0
  /\ selectedInspector = ""
  /\ tasks = EmptyBag
  /\ output = <<>>
  /\ started = 0
  /\ supabase = TRUE

\* setInspections(inspectionsData) (line 155) of a reload
SetInspections(data) ==
  /\ inspections' = data
  /\ UNCHANGED <<store, isLoading, availableInspectors, showRevisitModal,
                 revisitInspectionId, selectedInspector, isLoadingRole, userRole,
                 tasks, output, started, supabase, categories, language, filters, viewer>>

\* fetchAllData (lines 146-163) after an inspection was planned: the list comes
\* back with the new record first
ReloadAfterPlanning ==
  /\ Len(inspections) < MaxTotal
  /\ SetInspections(<<Filed(Len(inspections) + 1, "planned")>> \o inspections)

\* fetchAllData (lines 146-163) after the oldest planned inspection was approved
ReloadAfterApproval ==
  /\ \E k \in 1..Len(inspections) : inspections[k].status = "planned"
  /\ LET oldest == CHOOSE k \in 1..Len(inspections) :
                     /\ inspections[k].status = "planned"
                     /\ \A j \in (k + 1)..Len(inspections) : inspections[j].status # "planned"
     IN  SetInspections([inspections EXCEPT ![oldest].status = "approved"])

NextCounts ==
  \/ ReloadAfterPlanning
  \/ ReloadAfterApproval

SpecCounts == InitCounts /\ [][NextCounts]_vars

\* ---- The photo viewer: a specification of its handlers alone ----

\* photos of one inspection
MaxPhotos == 3

\* photo queries awaiting the store at once
MaxLoads == 2

\* interface InspectionPhoto (lines 65-72)
InspectionPhoto(inspection, order) ==
  [id |-> 10 * inspection + order,
   photo_url |-> "photos/" \o ToString(inspection) \o "/" \o ToString(order),
   photo_order |-> order]

\* the tables a run may start from: every inspection with 0..MaxPhotos photos
PhotoTables ==
  {[i \in Ids |-> {InspectionPhoto(i, k) : k \in 1..count[i]}] :
     count \in [Ids -> 0..MaxPhotos]}

\* .select('*').eq('inspection_id', id).order('photo_order') (lines 282-286)
RECURSIVE OrderByPhotoOrder(_)
OrderByPhotoOrder(rows) ==
  IF rows = {} THEN <<>>
  ELSE LET first == CHOOSE r \in rows : \A q \in rows : r.photo_order <= q.photo_order
       IN  <<first>> \o OrderByPhotoOrder(rows \ {first})

ListPhotos(id) ==
  IF id \in DOMAIN photoStore THEN OrderByPhotoOrder(photoStore[id]) ELSE <<>>

\* the state the photo handlers leave alone
page == <<store, inspections, isLoading, availableInspectors, showRevisitModal,
          revisitInspectionId, selectedInspector, isLoadingRole, userRole, started,
          supabase, categories, language, filters, photoStore>>

\* the list loaded and at rest, the viewer never opened yet
InitPhotos ==
  /\ store = InitialStore("submitted", "approved")
  /\ userRole = "admin"
  /\ inspections = SelectAll(store)
  /\ categories = FetchCategories
  /\ language = "en"
  /\ NoFilters
  /\ ViewerClosed
  /\ photoStore \in PhotoTables
  /\ isLoadingRole = FALSE
  /\ isLoading = FALSE
  /\ availableInspectors = Inspectors
  /\ showRevisitModal = FALSE
  /\ revisitInspectionId = 0
  /\ selectedInspector = ""
  /\ tasks = EmptyBag
  /\ output = <<>>
  /\ started = 0
  /\ supabase = TRUE

PhotosTask(id) == Task("handleViewInspectionPhotos", id, "", "photos", "pending", <<>>)

\* handleViewInspectionPhotos up to the await of its query (lines 277-286), from
\* the photo button of a row (lines 949, 1043)
HandleViewInspectionPhotos ==
  \E id \in Ids :
    /\ Rendered(id)
    /\ BagCardinality(tasks) < MaxLoads
    /\ tasks' = IF supabase THEN Spawn(tasks, PhotosTask(id)) ELSE tasks
    /\ output' = <<>>
    /\ UNCHANGED <<page, showPhotoModal, selectedPhotoIndex, viewingPhotos>>

\* the viewer opened on the photos of the answer, keeping the index it had
ShowPhotosKeepingIndex(data) ==
  /\ viewingPhotos' = data
  /\ showPhotoModal' = TRUE
  /\ UNCHANGED selectedPhotoIndex

\* lines 295-297
ShowPhotos(data) ==
  /\ viewingPhotos' = data
  /\ selectedPhotoIndex' = 0
  /\ showPhotoModal' = TRUE

\* handleViewInspectionPhotos after its query (lines 288-301): the store answers
\* with the photos of the inspection or with an error
PhotosLoaded ==
  \E t \in InFlight, fails \in BOOLEAN :
    /\ t.kind = "handleViewInspectionPhotos"
    /\ LET data == ListPhotos(t.id) IN
       IF fails
       THEN /\ output' = <<ConsoleError("Error loading photos:", StoreError),
                           AlertError("Error loading photos: ", StoreError)>>
            /\ UNCHANGED <<showPhotoModal, selectedPhotoIndex, viewingPhotos>>
       ELSE IF Len(data) = 0
       THEN /\ output' = <<Alert(T("fims.noPhotosFound",
                                   "No photos found for this inspection"))>>
            /\ UNCHANGED <<showPhotoModal, selectedPhotoIndex, viewingPhotos>>
       ELSE /\ ShowPhotos(data)
            /\ output' = <<>>
    /\ tasks' = Settle(tasks, t)
    /\ UNCHANGED page

\* the condition the photo modal is rendered under (line 1208)
PhotoModalShown == showPhotoModal /\ Len(viewingPhotos) > 0

Keys == {"ArrowLeft", "ArrowRight", "Escape", "Enter"}

\* handleKeyPress (lines 128-138), the keydown listener of the window
HandleKeyPress ==
  \E key \in Keys :
    /\ IF showPhotoModal /\ Len(viewingPhotos) > 0
       THEN IF key = "ArrowLeft" /\ selectedPhotoIndex > 0
            THEN /\ selectedPhotoIndex' = selectedPhotoIndex - 1
                 /\ UNCHANGED showPhotoModal
            ELSE IF key = "ArrowRight" /\ selectedPhotoIndex < Len(viewingPhotos) - 1
            THEN /\ selectedPhotoIndex' = selectedPhotoIndex + 1
                 /\ UNCHANGED showPhotoModal
            ELSE IF key = "Escape"
            THEN /\ showPhotoModal' = FALSE
                 /\ UNCHANGED selectedPhotoIndex
            ELSE UNCHANGED <<showPhotoModal, selectedPhotoIndex>>
       ELSE UNCHANGED <<showPhotoModal, selectedPhotoIndex>>
    /\ output' = <<>>
    /\ UNCHANGED <<page, tasks, viewingPhotos>>

\* the close button of the modal (line 1223)
ClosePhotoModal ==
  /\ PhotoModalShown
  /\ showPhotoModal' = FALSE
  /\ output' = <<>>
  /\ UNCHANGED <<page, tasks, viewingPhotos, selectedPhotoIndex>>

SetSelectedPhotoIndex(index) ==
  /\ selectedPhotoIndex' = index
  /\ output' = <<>>
  /\ UNCHANGED <<page, tasks, viewingPhotos, showPhotoModal>>

Max(a, b) == IF a >= b THEN a ELSE b
Min(a, b) == IF a <= b THEN a ELSE b

\* the arrow over the left edge of the photo (lines 1238-1246)
ClickLeftArrow ==
  /\ PhotoModalShown
  /\ selectedPhotoIndex > 0
  /\ SetSelectedPhotoIndex(selectedPhotoIndex - 1)

\* the arrow over the right edge of the photo (lines 1248-1256)
ClickRightArrow ==
  /\ PhotoModalShown
  /\ selectedPhotoIndex < Len(viewingPhotos) - 1
  /\ SetSelectedPhotoIndex(selectedPhotoIndex + 1)

\* the Previous button (lines 1267-1269), disabled on the first photo
ClickPrevious ==
  /\ PhotoModalShown
  /\ selectedPhotoIndex # 0
  /\ SetSelectedPhotoIndex(Max(0, selectedPhotoIndex - 1))

\* the Next button (lines 1282-1284), disabled on the last photo
ClickNext ==
  /\ PhotoModalShown
  /\ selectedPhotoIndex # Len(viewingPhotos) - 1
  /\ SetSelectedPhotoIndex(Min(Len(viewingPhotos) - 1, selectedPhotoIndex + 1))

NextPhotos ==
  \/ HandleViewInspectionPhotos
  \/ PhotosLoaded
  \/ HandleKeyPress
  \/ ClosePhotoModal
  \/ ClickLeftArrow
  \/ ClickRightArrow
  \/ ClickPrevious
  \/ ClickNext

SpecPhotos == InitPhotos /\ [][NextPhotos]_vars

\* ---------------------------------------------------------------- steps, as the claims see them
Shown(out) == {out[k] : k \in 1..Len(out)}
MemRow(recs, id) == CHOOSE r \in Shown(recs) : r.id = id

\* the step settles the mutating store call of t
Settles(t) ==
  /\ t \in InFlight /\ t.at = "mutate"
  /\ CopiesIn(t, tasks') = CopiesIn(t, tasks) - 1

\* the step starts t
Starts(t) == CopiesIn(t, tasks') > CopiesIn(t, tasks)

\* the step reports a thrown error
ErrorLogged == \E e \in Shown(output') : e.via = "console.error"
ErrorAlerted == \E e \in Shown(output') : e.via = "alert" /\ SubSeq(e.text, 1, 5) = "Error"

\* ---------------------------------------------------------------- C1
\* C1: whatever the status of a record, a complete whose update succeeds leaves
\* the record with status approved.
C1_CompleteApproves ==
  [][\A t \in InFlight :
       (t.kind = "handleCompleteInspection" /\ Settles(t) /\ ~ErrorLogged
          /\ t.id \in DOMAIN store)
       => (t.id \in DOMAIN store' /\ store'[t.id].status = "approved")]_vars

\* a draft, never submitted, has been force-completed: the store holds it as
\* approved while the table still shows the draft
C1_Witness ==
  \E t \in InFlight :
    /\ t.kind = "handleCompleteInspection" /\ t.at = "list"
    /\ t.id \in DOMAIN store /\ store[t.id].status = "approved"
    /\ Rendered(t.id) /\ MemRow(inspections, t.id).status = "draft"

\* ---------------------------------------------------------------- C2
\* C2: the store call of a complete changes nothing but the status of the record
\* it targets: the table keeps its rows, every other row is as it was, and the
\* targeted row keeps its inspector_id and is_compliant.
C2_CompleteFrame ==
  [][\A t \in InFlight :
       (t.kind = "handleCompleteInspection" /\ Settles(t))
       => /\ DOMAIN store' = DOMAIN store
          /\ \A i \in DOMAIN store :
               /\ i # t.id => store'[i] = store[i]
               /\ \A f \in DOMAIN store[i] \ {"status"} : store'[i][f] = store[i][f]
               /\ DOMAIN store'[i] = DOMAIN store[i]]_vars

\* a complete has gone through on a row that was no approved row: the row still
\* has its inspector and its open compliance verdict, and the other row is there
\* with another status
C2_Witness ==
  \E t \in InFlight, j \in DOMAIN store :
    /\ t.kind = "handleCompleteInspection" /\ t.at = "list" /\ t.res = "pending"
    /\ t.id \in DOMAIN store /\ j # t.id
    /\ store[t.id] = [status |-> "approved", inspector_id |-> User, is_compliant |-> Null]
    /\ store[j].status # "approved"

\* ---------------------------------------------------------------- C3
\* C3: a revisit is never sent to the store with an empty inspector, and the
\* step that shows the validation alert is a confirm with no inspector selected
\* that changes nothing: no store call starts, and the store, the record set,
\* the loading flag and the revisit dialog are as before.
ValidationAlert == Alert("Please select an inspector for revisit")

C3_EmptyRevisitRejected ==
  [][/\ \A t \in BagToSet(tasks') :
          (t.kind = "handleConfirmRevisit" /\ Starts(t))
          => (selectedInspector # "" /\ t.insp # "")
     /\ ValidationAlert \in Shown(output')
          => /\ selectedInspector = "" /\ showRevisitModal
             /\ output' = <<ValidationAlert>>
             /\ UNCHANGED <<store, tasks, inspections, isLoading, showRevisitModal,
                            revisitInspectionId, selectedInspector, started>>]_vars

\* the validation alert has just been shown in the open dialog with records
\* loaded, nothing in flight and the flag down
C3_Witness ==
  /\ output = <<ValidationAlert>>
  /\ showRevisitModal /\ selectedInspector = ""
  /\ Rendered(revisitInspectionId)
  /\ availableInspectors # {}
  /\ tasks = EmptyBag /\ ~isLoading

\* ---------------------------------------------------------------- C4
\* C4: a confirmed revisit is sent for the record whose dialog is open with the
\* inspector selected in it, and when the reassign succeeds the record holds
\* that inspector and the status in_progress, whatever its status was.
RevisitSucceeds(t) ==
  /\ t.kind = "handleConfirmRevisit" /\ Settles(t)
  /\ Alert("Inspection assigned for revisit successfully") \in Shown(output')

C4_RevisitReassigns ==
  [][/\ \A t \in BagToSet(tasks') :
          (t.kind = "handleConfirmRevisit" /\ Starts(t))
          => (t.id = revisitInspectionId /\ t.insp = selectedInspector)
     /\ \A t \in InFlight :
          RevisitSucceeds(t)
          => /\ t.id \in DOMAIN store /\ t.id \in DOMAIN store'
             /\ store'[t.id] = [status |-> "in_progress", inspector_id |-> t.insp,
                                is_compliant |-> store[t.id].is_compliant]]_vars

\* a rejected record has just been reassigned: the store holds it in_progress
\* under the chosen inspector while the table still shows it rejected
C4_Witness ==
  \E i \in DOMAIN store :
    /\ output = <<Alert("Inspection assigned for revisit successfully")>>
    /\ store[i].status = "in_progress" /\ store[i].inspector_id \in Inspectors
    /\ Rendered(i) /\ MemRow(inspections, i).status = "rejected"
    /\ MemRow(inspections, i).inspector_id = User

\* ---------------------------------------------------------------- C5
\* C5: a record that has left the store never comes back to it, and once it is
\* gone from the store and from the record set in memory, it does not reappear
\* in the record set.
C5_DeletedStaysGone ==
  [][\A i \in Ids :
       /\ i \notin DOMAIN store => i \notin DOMAIN store'
       /\ (i \notin DOMAIN store /\ ~Rendered(i)) => i \notin MemIds(inspections')]_vars

\* ---------------------------------------------------------------- C6
\* C6: a delete reaches the store only in the step in which the user confirms,
\* and the step in which the user declines starts nothing and leaves the store,
\* the record set and the loading flag as they were.
C6_DeleteNeedsConfirm ==
  [][/\ \A t \in BagToSet(tasks') :
          (t.kind = "handleDeleteInspection" /\ t.at = "mutate" /\ Starts(t))
          => output' = <<Confirm("ok")>>
     /\ Confirm("cancel") \in Shown(output')
          => UNCHANGED <<store, tasks, inspections, isLoading, started>>]_vars

\* the user has just declined with both records on screen and nothing started
C6_Witness ==
  /\ output = <<Confirm("cancel")>>
  /\ Len(inspections) = 2 /\ DOMAIN store = Ids
  /\ tasks = EmptyBag /\ ~isLoading /\ started = 0

\* ---------------------------------------------------------------- C7
\* C7: when a delete settles for an id the store does not hold, the user is shown
\* the error alert and no success alert, the thrown error is logged, no refresh
\* follows, and the record set keeps its length.
C7_DeleteMissingFails ==
  [][\A t \in InFlight :
       (t.kind = "handleDeleteInspection" /\ Settles(t) /\ t.id \notin DOMAIN store)
       => /\ Alert("Error deleting inspection") \in Shown(output')
          /\ Alert("Inspection deleted successfully") \notin Shown(output')
          /\ \E e \in Shown(output') :
               e.via = "console.error" /\ e.detail \in {NotFoundError, StoreError}
          /\ Len(inspections') = Len(inspections)
          /\ tasks' = Settle(tasks, t)
          /\ store' = store]_vars

\* a delete of a row that is on screen but no longer in the store has just been
\* turned down as not found
C7_Witness ==
  /\ output = <<ConsoleError("Error deleting inspection:", NotFoundError),
                Alert("Error deleting inspection")>>
  /\ \E i \in Ids : Rendered(i) /\ i \notin DOMAIN store

\* ---------------------------------------------------------------- C8
\* C8: at most one mutating store call (delete, update to approved, reassign) is
\* awaiting the store at any time.
Mutating == {t \in InFlight : t.at = "mutate"}
MutationsInFlight == BagCardinality([t \in Mutating |-> CopiesIn(t, tasks)])

C8_OneMutationInFlight == MutationsInFlight <= 1

\* ---------------------------------------------------------------- C9
\* C9: whenever a handler is suspended on the store, isLoading is true.
C9_LoadingWhileAwaiting == tasks # EmptyBag => isLoading

\* ---------------------------------------------------------------- C10
\* C10: the step in which the store call of a delete, complete or revisit fails
\* ends the attempt: the handler is gone with nothing started in its place, the
\* store and the record set in memory are as before, and the user is shown an
\* error alert.
C10_FailureIsTerminal ==
  [][\A t \in InFlight :
       (Settles(t) /\ ErrorLogged)
       => /\ tasks' = Settle(tasks, t)
          /\ store' = store
          /\ inspections' = inspections
          /\ ErrorAlerted
          /\ \A e \in Shown(output') : e.via = "alert" => SubSeq(e.text, 1, 5) = "Error"]_vars

\* the update of a complete has just failed: the error is on screen, nothing is
\* in flight, and the row is in the store and in memory as it was loaded
C10_Witness ==
  /\ AlertError("Error completing inspection: ", StoreError) \in Shown(output)
  /\ tasks = EmptyBag /\ started = 1
  /\ inspections = SelectAll(store) /\ Len(inspections) = 2
  /\ \A i \in DOMAIN store : store[i].status # "approved"

\* ---------------------------------------------------------------- C11
\* C11: the step in which a complete attempt ends shows exactly one outcome of
\* the attempt, the success alert or the error alert, and an attempt never ends
\* in a step that shows neither.
CompleteOutcome(e) ==
  /\ e.via = "alert"
  /\ e.text \in {"Inspection marked as completed", "Error completing inspection: "}

CompleteTasks(b) ==
  BagCardinality([t \in {u \in BagToSet(b) : u.kind = "handleCompleteInspection"}
                    |-> CopiesIn(t, b)])

\* a continuation of a complete has run to its end, or an attempt was started
\* and is over without one
CompleteReturns ==
  \/ CompleteTasks(tasks') < CompleteTasks(tasks)
  \/ started' = started + 1 /\ tasks' = tasks

C11_CompleteSignalsOutcome ==
  [][CompleteReturns => Len(SelectSeq(output', CompleteOutcome)) = 1]_vars

\* ---------------------------------------------------------------- C12
\* C12: a mutating store call is issued only in the step in which the user starts
\* a delete, complete or revisit attempt, one call for the attempt, and the step
\* that handles the result of a call, success or failure, leaves one call fewer
\* awaiting the store: nothing is sent again.
MutationFailed ==
  \E e \in Shown(output') :
    /\ e.via = "console.error"
    /\ e.text \in {"Error deleting inspection:", "Error completing inspection:",
                    "Error sending for revisit:"}

MutatingIn(b) == {t \in BagToSet(b) : t.at = "mutate"}

C12_NoRetry ==
  [][/\ MutationsInFlight' > MutationsInFlight
          => /\ started' = started + 1
             /\ MutationsInFlight' = MutationsInFlight + 1
     /\ started' = started
          => \A t \in MutatingIn(tasks') : CopiesIn(t, tasks') <= CopiesIn(t, tasks)
     /\ (store' # store \/ MutationFailed)
          => MutationsInFlight' = MutationsInFlight - 1]_vars

\* two attempts have been made and the update of the second has just failed:
\* nothing is awaiting the store and no record was touched
C12_Witness ==
  /\ output = <<ConsoleError("Error completing inspection:", StoreError),
                AlertError("Error completing inspection: ", StoreError)>>
  /\ started = 2 /\ tasks = EmptyBag
  /\ DOMAIN store = Ids
  /\ \A i \in Ids : store[i].inspector_id = User /\ store[i].status # "approved"

\* ---------------------------------------------------------------- C13
\* C13: the step in which a delete, complete or reassign succeeds sends a query
\* for the record set, and the step in which that query's rows arrive makes them
\* the record set in memory; the rows were read after the mutation, so a deleted
\* record is not among them and a completed record is among them as approved,
\* unless it has been reassigned since.
Resolves(t) ==
  /\ t \in InFlight /\ t.at = "list" /\ t.res = "ok"
  /\ CopiesIn(t, tasks') = CopiesIn(t, tasks) - 1

QueryStarts ==
  \E u \in BagToSet(tasks') : u.at = "list" /\ u.res = "pending" /\ Starts(u)

ReassignedSince(row) == row.status = "in_progress" /\ row.inspector_id \in Inspectors

C13_RefreshReflectsMutation ==
  [][\A t \in InFlight :
       /\ (Settles(t) /\ ~MutationFailed) => QueryStarts
       /\ Resolves(t)
            => /\ inspections' = t.data
               /\ t.kind = "handleDeleteInspection" => t.id \notin MemIds(inspections')
               /\ (t.kind = "handleCompleteInspection" /\ t.id \in MemIds(inspections'))
                    => \/ MemRow(inspections', t.id).status = "approved"
                       \/ ReassignedSince(MemRow(inspections', t.id))]_vars

\* the refresh of the one delete made has just resolved: one record is left in
\* the store and it is the one record in memory
C13_Witness ==
  /\ started = 1 /\ tasks = EmptyBag /\ output = <<>> /\ ~isLoading
  /\ Cardinality(DOMAIN store) = 1
  /\ inspections = SelectAll(store) /\ Len(inspections) = 1

\* ---------------------------------------------------------------- C14
\* C14: a record of the list is in the filtered result exactly when it satisfies
\* all nine axes at once (search term, selected category, selected status and the
\* six column filters), and an axis whose criterion is empty is satisfied by
\* every record.
Axes == {"searchTerm", "selectedCategory", "selectedStatus", "inspectionNumber",
         "location", "category", "status", "date", "filled_by_name"}

Criterion(axis) ==
  CASE axis = "searchTerm" -> searchTerm
    [] axis = "selectedCategory" -> selectedCategory
    [] axis = "selectedStatus" -> selectedStatus
    [] OTHER -> columnFilters[axis]

Satisfies(inspection, axis) ==
  CASE axis = "searchTerm" -> MatchesSearch(inspection)
    [] axis = "selectedCategory" -> MatchesCategory(inspection)
    [] axis = "selectedStatus" -> MatchesStatus(inspection)
    [] axis = "inspectionNumber" -> MatchesInspectionNumber(inspection)
    [] axis = "location" -> MatchesLocation(inspection)
    [] axis = "category" -> MatchesCategoryFilter(inspection)
    [] axis = "status" -> MatchesStatusFilter(inspection)
    [] axis = "date" -> MatchesDateFilter(inspection)
    [] axis = "filled_by_name" -> MatchesFilledBy(inspection)

C14_AllAxes ==
  \A inspection \in Shown(inspections) :
    /\ inspection \in Shown(GetFilteredInspections)
         <=> \A axis \in Axes : Satisfies(inspection, axis)
    /\ \A axis \in Axes : Criterion(axis) = "" => Satisfies(inspection, axis)

\* four axes are set on the whole pool and one record satisfies them all
C14_Witness ==
  /\ inspections = InspectionPool
  /\ searchTerm # "" /\ selectedCategory # ""
  /\ columnFilters.date # "" /\ columnFilters.filled_by_name # ""
  /\ GetFilteredInspections = <<InspectionPool[1]>>

\* ---------------------------------------------------------------- C15
\* C15: with the search term, the selected category, the selected status and the
\* six column filters all empty, the filtered result is the record list itself,
\* same records in the same order, whatever fields the records lack.
AllCriteriaEmpty == \A axis \in Axes : Criterion(axis) = ""

C15_EmptyCriteriaKeepAll == AllCriteriaEmpty => GetFilteredInspections = inspections

\* nothing is filtered on the whole pool, which has records without location,
\* without any date and without filled_by_name
C15_Witness ==
  /\ AllCriteriaEmpty
  /\ inspections = InspectionPool
  /\ \E r \in Shown(inspections) : ~Has(r, "location_name")
  /\ \E r \in Shown(inspections) : InspectionDate(r) = <<>>
  /\ \E r \in Shown(inspections) : ~Has(r, "filled_by_name")

\* ---------------------------------------------------------------- C16
\* C16: filtering the filtered result again, with the same criteria, gives the
\* filtered result.
C16_FilterIdempotent == Filter(Filter(inspections)) = Filter(inspections)

\* criteria are set that keep some records of the pool and drop others
C16_Witness ==
  /\ inspections = InspectionPool
  /\ ~AllCriteriaEmpty
  /\ Len(Filter(inspections)) \in 2..(Len(inspections) - 1)

\* ---------------------------------------------------------------- C17
\* C17: the filtered result holds records of the list only, none twice, in the
\* order the list has them; and when selectedStatus is the only criterion set,
\* it is exactly the records of the list whose status equals it, in list order.
RECURSIVE IsSubsequence(_, _)
IsSubsequence(a, b) ==
  IF a = <<>> THEN TRUE
  ELSE IF b = <<>> THEN FALSE
  ELSE IF Head(a) = Head(b) THEN IsSubsequence(Tail(a), Tail(b))
  ELSE IsSubsequence(a, Tail(b))

OnlyStatusSet ==
  /\ selectedStatus # ""
  /\ \A axis \in Axes \ {"selectedStatus"} : Criterion(axis) = ""

C17_FilteredIsSubsequence ==
  /\ IsSubsequence(GetFilteredInspections, inspections)
  /\ Cardinality(MemIds(GetFilteredInspections)) = Len(GetFilteredInspections)
  /\ OnlyStatusSet
       => GetFilteredInspections
            = SelectSeq(inspections, LAMBDA r : r.status = selectedStatus)

\* only the status is selected, and the two approved records of the pool, which
\* are not neighbours in it, are the result
C17_Witness ==
  /\ OnlyStatusSet
  /\ inspections = InspectionPool
  /\ GetFilteredInspections = <<InspectionPool[2], InspectionPool[4]>>

\* ---------------------------------------------------------------- C18
\* C18: for every record of the list and every column filter that is not empty,
\* the record satisfies the filter exactly when the text its row shows in that
\* column contains the criterion, letter case aside.
\* the cells of a row of the inspections table (lines 893-909) and the location
\* cell of the dashboard table (lines 696-702)
Displayed(inspection, column) ==
  CASE column = "inspectionNumber" -> inspection.inspection_number
    [] column = "location" ->
         IF Has(inspection, "location_name") THEN inspection.location_name ELSE ""
    [] column = "category" ->
         IF FindCategory(inspection) = <<>> THEN "-"
         ELSE IF language = "mr" THEN FindCategory(inspection)[1].name_marathi
         ELSE FindCategory(inspection)[1].name
    [] column = "status" -> GetStatusText(inspection.status)
    [] column = "date" ->
         IF InspectionDate(inspection) = <<>> THEN "-"
         ELSE ToLocaleDateString(InspectionDate(inspection)[1])
    [] column = "filled_by_name" ->
         IF Has(inspection, "filled_by_name") THEN inspection.filled_by_name ELSE "-"

MatchesDisplayed(column) ==
  \A inspection \in Shown(inspections) :
    columnFilters[column] # ""
      => (Satisfies(inspection, column)
            <=> Includes(ToLowerCase(Displayed(inspection, column)),
                         ToLowerCase(columnFilters[column])))

C18_ColumnFilterMatchesDisplay == \A column \in DOMAIN columnFilters : MatchesDisplayed(column)

\* ---------------------------------------------------------------- C19
\* C19: total is the number of records of the list, pending the number of them
\* with status planned, in_progress or draft, completed the number with status
\* approved, submitted the number with status submitted; with no record all four
\* are zero.
WithStatus(S) == Cardinality({k \in 1..Len(inspections) : inspections[k].status \in S})

C19_Counters ==
  /\ GetStatusCounts.total = Len(inspections)
  /\ GetStatusCounts.pending = WithStatus({"planned", "in_progress", "draft"})
  /\ GetStatusCounts.completed = WithStatus({"approved"})
  /\ GetStatusCounts.submitted = WithStatus({"submitted"})
  /\ inspections = <<>>
       => GetStatusCounts = [total |-> 0, pending |-> 0, completed |-> 0, submitted |-> 0]

\* the whole pool is counted: seven records, a draft, an in_progress and a
\* planned one pending, two approved, one submitted, one in no bucket
C19_Witness ==
  /\ inspections = InspectionPool
  /\ GetStatusCounts = [total |-> 7, pending |-> 3, completed |-> 2, submitted |-> 1]

\* ---------------------------------------------------------------- C20
\* C20: a step that changes the search term, the selected category, the selected
\* status or a column filter leaves total, pending, completed, submitted and the
\* completion rate as they were.
C20_CountersIgnoreFilters ==
  [][filters' # filters
       => /\ GetStatusCounts' = GetStatusCounts
          /\ GetCompletionRate' = GetCompletionRate]_vars

\* the filters hide every record of the pool and the counters still count all
\* seven of them
C20_Witness ==
  /\ inspections = InspectionPool
  /\ ~AllCriteriaEmpty
  /\ GetFilteredInspections = <<>>
  /\ GetStatusCounts.total = 7 /\ GetCompletionRate = 29
\* ---- C21 ----

\* x / y * 100 rounded to an integer, halves up
HalfUpPercent(x, y) == (200 * x + y) \div (2 * y)

\* C21: the completion rate is completed / total * 100 rounded half-up to an
\* integer, 0 when total = 0, and always lies in 0..100
C21_CompletionRate ==
  LET counts == GetStatusCounts
  IN  /\ GetCompletionRate \in 0..100
      /\ GetCompletionRate = IF counts.total = 0 THEN 0
                             ELSE HalfUpPercent(counts.completed, counts.total)

\* ---- C22 ----

Counted == {"planned", "in_progress", "draft", "approved", "submitted"}

CountedSum == GetStatusCounts.pending + GetStatusCounts.completed + GetStatusCounts.submitted

\* C22: pending + completed + submitted <= total, and the sum is the total
\* exactly when no record has a status outside planned, in_progress, draft,
\* approved and submitted
C22_CountersSum ==
  /\ CountedSum <= GetStatusCounts.total
  /\ CountedSum = GetStatusCounts.total
       <=> \A k \in 1..Len(inspections) : inspections[k].status \in Counted

\* a full list with a submitted record and four records no counter counts
C22_Witness ==
  /\ Len(inspections) = MaxTotal
  /\ GetStatusCounts.submitted = 1
  /\ CountedSum = MaxTotal - 4

\* ---- C23 ----

\* the texts the bundles have for a status
BundleTexts(status) ==
  {Resources[l]["statuses." \o status] :
     l \in {b \in Languages : ("statuses." \o status) \in DOMAIN Resources[b]}}

\* C23: every status of a record resolves to a label: one of the eight defined
\* statuses to a text of a bundle or its upper-cased name, any other status to
\* the upper-cased raw status
C23_StatusText ==
  \A k \in 1..Len(inspections) :
    LET status == inspections[k].status
        label == GetStatusText(status)
    IN  /\ Len(label) > 0
        /\ status \in StatusSet => label \in BundleTexts(status) \cup {ToUpperCase(status)}
        /\ status \notin StatusSet => label = ToUpperCase(status)

\* the Marathi page lists a record of an unlisted status and one of a defined
\* status its bundle has no text for
C23_Witness ==
  /\ language = "mr"
  /\ Len(inspections) > Len(MixedList)
  /\ \E k \in 1..Len(inspections) :
       /\ inspections[k].status = UnlistedStatus
       /\ GetStatusText(inspections[k].status) = "ON_HOLD"
  /\ \E k \in 1..Len(inspections) :
       /\ inspections[k].status = "under_review"
       /\ GetStatusText(inspections[k].status) = "UNDER_REVIEW"

\* ---- C24 ----

\* the badges of the tiers success, info, neutral, danger, warning-reassign and
\* neutral-default
Tiers == {Emerald, BlueCyan, Slate, RoseRed, VioletPurple}

\* C24: every status of a listed record has one of the six tiers, and its badge
\* is the same in the dashboard table as in the cards and the inspections table
C24_StatusTier ==
  \A k \in 1..Len(GetFilteredInspections) :
    LET status == GetFilteredInspections[k].status
    IN  /\ GetStatusColor(status) \in Tiers
        /\ DashboardStatusColor(status) = GetStatusColor(status)

\* ---- C25 ----

Uncategorised(inspection) == FindCategory(inspection) = <<>>

\* C25: a record whose category_id is the id of no category has the category
\* name "", and passes the category column filter exactly when that filter is
\* empty
C25_UnknownCategory ==
  \A k \in 1..Len(inspections) :
    Uncategorised(inspections[k]) =>
      /\ CategoryName(inspections[k]) = ""
      /\ MatchesCategoryFilter(inspections[k]) <=> columnFilters.category = ""
      /\ columnFilters.category # "" =>
           \A j \in 1..Len(GetFilteredInspections) :
             GetFilteredInspections[j].id # inspections[k].id

\* a category column filter that keeps a record of a known category and drops
\* the record without one
C25_Witness ==
  /\ columnFilters.category # ""
  /\ GetFilteredInspections # <<>>
  /\ \E k \in 1..Len(inspections) :
       /\ Uncategorised(inspections[k])
       /\ ~MatchesCategoryFilter(inspections[k])

\* ---- C26 ----

\* nothing is awaiting the store and the initial load has been started
AtRest == tasks = EmptyBag /\ ~isLoadingRole

\* C26: once every refresh in flight has resolved, the record set in memory is
\* the answer to the refresh issued last.  Every change of the store issues a
\* refresh after it, so on a store that answers every query that answer is the
\* rows the store holds now, scoped or not.
C26_LatestRefreshWins ==
  AtRest => inspections \in {SelectAll(store), GetInspections(store, User, userRole)}

\* ---- C27 ----

\* the queries for the record set the step answers with rows
AnsweredNow ==
  {t \in BagToSet(tasks') : t.at = "list" /\ t.res = "ok"} \ BagToSet(tasks)

\* C27: every refresh, whichever handler issued it, is answered with the rows of
\* the store that are in the scope of the actor and the role
C27_RefreshScoped ==
  [][\A t \in AnsweredNow : t.data = GetInspections(store, User, userRole)]_vars

\* ---- C28 ----

\* C28: when nothing that was started is still awaiting the store, isLoading is
\* false, and isLoading never stays true forever
C28_LoadingEnds ==
  /\ [](tasks = EmptyBag => ~isLoading)
  /\ isLoading ~> ~isLoading

\* the last operation in flight, a delete, has just failed
C28_Witness ==
  /\ tasks = EmptyBag
  /\ started = MaxOps
  /\ ~isLoading
  /\ \E k \in 1..Len(output) : output[k] = ConsoleError("Error deleting inspection:", StoreError)

\* ---- C29 ----

\* the step opens the revisit dialog or points it at another record
RevisitInvoked ==
  /\ showRevisitModal'
  /\ ~showRevisitModal \/ revisitInspectionId' # revisitInspectionId

RevisitFails(t) ==
  /\ t.kind = "handleConfirmRevisit" /\ Settles(t)
  /\ ~RevisitSucceeds(t)

\* C29: invoking Revisit clears the selected inspector; a reassign starts from
\* the open dialog for the record Revisit was invoked on last and an inspector
\* of the list selected since; a failed reassign leaves the dialog, its record
\* and its selection as they are, and a successful one closes the dialog
C29_RevisitDialog ==
  [][/\ RevisitInvoked => selectedInspector' = ""
     /\ revisitInspectionId' # revisitInspectionId => selectedInspector' = ""
     /\ \A t \in BagToSet(tasks') :
          (t.kind = "handleConfirmRevisit" /\ Starts(t))
          => /\ showRevisitModal
             /\ t.id = revisitInspectionId
             /\ t.insp = selectedInspector /\ t.insp \in availableInspectors
     /\ \A t \in InFlight :
          /\ RevisitFails(t)
               => UNCHANGED <<showRevisitModal, revisitInspectionId, selectedInspector>>
          /\ RevisitSucceeds(t) => ~showRevisitModal']_vars

\* a reassign has just failed and the dialog is still open on its record with
\* the inspector selected
C29_Witness ==
  /\ \E k \in 1..Len(output) :
       output[k].via = "console.error" /\ output[k].text = "Error sending for revisit:"
  /\ showRevisitModal
  /\ selectedInspector \in Inspectors
  /\ Rendered(revisitInspectionId)

\* ---- C30 ----

\* the step settles a photo query
PhotoQuerySettles(t) ==
  /\ t \in InFlight /\ t.kind = "handleViewInspectionPhotos"
  /\ CopiesIn(t, tasks') = CopiesIn(t, tasks) - 1

\* the step shows neither an error nor the alert that there are no photos
PhotosShownNow == output' = <<>>

\* C30: a shown photo viewer has photos and an index that points at one of
\* them; a photo query answered with photos opens the viewer on them at index
\* 0, and one that fails or is answered with no photo leaves the viewer as it was
C30_PhotoViewer ==
  /\ [](PhotoModalShown =>
          /\ viewingPhotos # <<>>
          /\ selectedPhotoIndex \in 0..(Len(viewingPhotos) - 1))
  /\ [][\A t \in InFlight :
          PhotoQuerySettles(t) =>
            IF PhotosShownNow
            THEN /\ ListPhotos(t.id) # <<>>
                 /\ showPhotoModal' /\ selectedPhotoIndex' = 0
                 /\ viewingPhotos' = ListPhotos(t.id)
            ELSE UNCHANGED <<showPhotoModal, selectedPhotoIndex, viewingPhotos>>]_vars

\* the viewer is on the last of the photos of one inspection while the query
\* for another inspection with fewer photos is awaiting the store
C30_Witness ==
  /\ PhotoModalShown
  /\ Len(viewingPhotos) = MaxPhotos
  /\ selectedPhotoIndex = MaxPhotos - 1
  /\ \E t \in InFlight :
       /\ t.kind = "handleViewInspectionPhotos"
       /\ ListPhotos(t.id) # <<>>
       /\ Len(ListPhotos(t.id)) < Len(viewingPhotos)

====
